---- MODULE Spec2Model ----
(***************************************************************************)
(* State-machine model of examples/dreambooth/train_dreambooth.py:         *)
(* the training orchestration of main() (session load, the epoch/step      *)
(* loop with gradient accumulation, the text-encoder freeze, periodic and  *)
(* final export, session save and final conversion), run by                *)
(* num_processes data-parallel processes over one shared output directory, *)
(* and the ClassDataProvider round-robin cursor.                           *)
(***************************************************************************)
EXTENDS Integers, Sequences, FiniteSets, TLC

\* ------------------------------------------------------------------ bounds
MaxProcs == 2          \* accelerator.num_processes ranges over 1..MaxProcs
MaxLen == 2            \* len(train_dataloader) ranges over 1..MaxLen
MaxGas == 2            \* gradient_accumulation_steps ranges over 1..MaxGas
MaxTrainSteps == 3     \* max_train_steps of a short run ranges over 1..MaxTrainSteps
MaxRuns == 2           \* invocations on the same output directory
MaxStart == 2          \* save_starting_step of a short run ranges over 1..MaxStart
MaxExtra == 2          \* steps of a long run beyond the freeze and export thresholds
MaxEntries == 4        \* entries of a class directory
MaxCalls == 9          \* take_one() calls on one provider
MaxBatch == 3          \* examples of one batch (train_batch_size)
MaxImages == 2         \* instance images, and class images, the examples are drawn from
MaxRequests == 3       \* examples fetched from one dataset
MaxOver == 1           \* subfolders beyond the caps of the subfolder mode
MaxTarget == 3         \* args.num_class_images, and the largest file name found
MaxStem == 3           \* characters of an enumerated file name stem

\* ------------------------------------------------------- program constants
SaveNStepsMin == 200            \* if args.save_n_steps >= 200
StopStepMin == 30               \* ... and global_step >= 30
SaveNStepsDefault == 1          \* --save_n_steps default
SaveStartingStepDefault == 1    \* --save_starting_step default
StopTextEncoderDefault == 1000000  \* --stop_text_encoder_training default
MaxClassSubdirs == 3            \* elif len(class_subdirs) > 3
MaxGroupDirs == 5               \* if len(instance_images_dirs) > 5

VARIABLES
    \* configuration of the current invocation
    args,               \* the parsed command line (the fields main() reads)
    num_processes,      \* accelerator.num_processes
    dataloader_len,     \* len(train_dataloader) after accelerator.prepare
    run,                \* number of the current invocation, 1..MaxRuns
    \* the output directory, shared by all processes and all invocations
    session_file,       \* <output_dir>/training/session.json
    training_dir,       \* <output_dir>/training exists
    frz_dir,            \* <output_dir>/text_encoder_frozen
    save_dirs,          \* periodic working directories, by step label
    output_model,       \* the pipeline saved in <output_dir>
    \* one copy per process
    pc,                 \* position in main()
    global_step,
    epoch,
    step,
    i,                  \* the running target step of the periodic export
    session,            \* the in-memory session object
    unet,               \* number of optimizer updates applied to the unet
    text_encoder,       \* number of optimizer updates applied to the text encoder
    \* observation
    session_at_start,   \* session_file as it was when the invocation started
    events,             \* side effects of the current invocation
    \* ClassDataProvider
    entries,            \* the class directory: entry -> "file" | "dir"
    class_images,       \* self.class_images
    cursor,             \* self.cursor
    taken,              \* the paths returned by take_one(), in call order
    provider,           \* "new" | "ready" | "error" | "idle"
    \* one batch, from the dataset to the loss
    with_prior_preservation,   \* args.with_prior_preservation
    examples,           \* the examples the dataloader hands to collate_fn
    batch,              \* the collated batch
    latents_cache,      \* what latent caching keeps of the batch
    noise_pred,         \* the rows of the unet's prediction
    loss_parts,         \* the rows of the instance loss and of the prior loss
    bpc,                \* "examples" | "collated" | "cached" | "forward" | "loss" | "idle"
    \* the training dataset
    subfolder_mode,     \* args.subfolder_mode
    instance_dir,       \* args.instance_data_dir: its entries, or its class subfolders
    class_dir,          \* the files of args.class_data_dir (0) and of its subfolders
    train_dataset,      \* the DreamBoothDataset or SubfolderModeDataset
    fetched,            \* the examples fetched with __getitem__, in order
    models_loaded,      \* text encoder, vae and unet have been loaded
    trained,            \* micro-batches trained on fetched examples
    num_class_images,   \* args.num_class_images, the target of the generation
    found_files,        \* names of the files of the class directory at start
    class_images_dir,   \* names of the files of the class directory now
    gpc,                \* per process: position between lines 627 and 732
    cur_class_images,   \* per process: the count of line 557
    sample_dataloader,  \* per process: the indices still to be sampled
    listing,            \* per process: the class files its dataset has listed
    written,            \* the images saved by line 583, in order
    variant,            \* the dataset class whose __getitem__ derives the prompt
    filename,           \* Path(path).stem of an instance image
    instance_prompt     \* the prompt derived from it

runVars == <<args, num_processes, dataloader_len, run, session_file, training_dir,
             frz_dir, save_dirs, output_model, pc, global_step, epoch, step, i,
             session, unet, text_encoder, session_at_start, events>>
providerVars == <<entries, class_images, cursor, taken, provider>>
batchVars == <<with_prior_preservation, examples, batch, latents_cache, noise_pred,
               loss_parts, bpc>>
datasetVars == <<subfolder_mode, instance_dir, class_dir, train_dataset, fetched,
                 models_loaded, trained>>
generateVars == <<num_class_images, found_files, class_images_dir, gpc,
                  cur_class_images, sample_dataloader, listing, written>>
promptVars == <<variant, filename, instance_prompt>>
dataVars == <<batchVars, datasetVars, generateVars, promptVars>>
vars == <<args, num_processes, dataloader_len, run, session_file, training_dir,
          frz_dir, save_dirs, output_model, pc, global_step, epoch, step, i,
          session, unet, text_encoder, session_at_start, events,
          entries, class_images, cursor, taken, provider,
          with_prior_preservation, examples, batch, latents_cache, noise_pred,
          loss_parts, bpc,
          subfolder_mode, instance_dir, class_dir, train_dataset, fetched,
          models_loaded, trained,
          num_class_images, found_files, class_images_dir, gpc,
          cur_class_images, sample_dataloader, listing, written,
          variant, filename, instance_prompt>>

\* ----------------------------------------------------------------- helpers
Procs == 0 .. (num_processes - 1)

\* accelerator.is_main_process: the process of index 0
is_main_process(p) == p = 0

CeilDiv(a, b) == (a + b - 1) \div b

\* line 615-616: stop_text_encoder_training <= 1 switches text-encoder training off
train_text_encoder ==
    args.train_text_encoder /\ ~(args.stop_text_encoder_training <= 1)

\* line 621: the configuration main() refuses with a ValueError
ConfigRejected ==
    train_text_encoder /\ args.gradient_accumulation_steps > 1 /\ num_processes > 1

\* lines 787-789: after caching, `del text_encoder` unless it is being trained
text_encoder_deleted == ~args.not_cache_latents /\ ~train_text_encoder

\* lines 795, 817: math.ceil(len(train_dataloader) / gradient_accumulation_steps)
num_update_steps_per_epoch ==
    CeilDiv(dataloader_len, args.gradient_accumulation_steps)

\* line 821: math.ceil(max_train_steps / num_update_steps_per_epoch)
num_train_epochs == CeilDiv(args.max_train_steps, num_update_steps_per_epoch)

\* accelerator.accumulate / accelerator.sync_gradients (lines 608-613, 868, 918, 930):
\* gradients are synchronized on every gradient_accumulation_steps-th micro-batch
\* of an epoch and on the last micro-batch of the dataloader, which is what the
\* ceil of lines 795 and 817 counts as the updates of one epoch.
sync_gradients(s) ==
    \/ (s + 1) % args.gradient_accumulation_steps = 0
    \/ s + 1 = dataloader_len

\* ---------------------------------------------------------- session file
DefaultSession == [kind |-> "valid", step |-> 0]          \* line 849
File(kind, n) == [kind |-> kind, step |-> n]
NoFile == File("absent", 0)

\* line 853: isfile and 0 < getsize < 10000.  "empty" is a file of size 0,
\* "large" one of 10000 bytes or more; the other files are small.
SessionFileAccepted(f) == f.kind \in {"garbage", "noint", "valid"}

\* line 857: json.load raises on text that is not JSON ("garbage")
JsonLoadRaises(f) == f.kind = "garbage"

\* lines 849-857: the session object after the load; a file that parses but
\* holds no integer session_step ("noint") is loaded as it is
LoadedSession(f) ==
    IF SessionFileAccepted(f) THEN [kind |-> f.kind, step |-> f.step]
    ELSE DefaultSession

\* session["session_step"] as an integer: raises on a "noint" object
SessionStepRaises(s) == s.kind # "valid"

\* ------------------------------------------------------------ observation
Event(p, op, label, u, t) ==
    [proc |-> p, op |-> op, label |-> label, ep |-> epoch[p], st |-> step[p],
     unet |-> u, te |-> t]

Ev(p, op, label) == Event(p, op, label, unet[p], text_encoder[p])

Of(op) == {e \in events : e.op = op}

CrashPcs == {"err_config", "err_makedirs", "err_json", "err_session",
             "err_mkdir", "err_export", "err_final_export"}
LoopPcs == {"batch", "freeze", "periodic", "periodic_mkdir", "periodic_save"}
AfterLoopPcs == {"final_export", "session_save", "final_ckpt", "done"}

Crashed(p) == pc[p] \in CrashPcs

\* ---------------------------------------------------------- configuration
\* Short runs.  save_starting_step is read only inside the block of line 964,
\* so it varies only when save_n_steps opens that block.
ShortArgs ==
    {a \in [max_train_steps : 1 .. MaxTrainSteps,
            gradient_accumulation_steps : 1 .. MaxGas,
            save_n_steps : {SaveNStepsDefault, SaveNStepsMin},
            save_starting_step : 1 .. MaxStart,
            stop_text_encoder_training : {StopTextEncoderDefault},
            train_text_encoder : BOOLEAN,
            not_cache_latents : BOOLEAN,
            save_intermediary_dirs : {0}] :
        a.save_n_steps < SaveNStepsMin =>
            a.save_starting_step = SaveStartingStepDefault}

\* Runs that pass the freeze step: max_train_steps just above StopStepMin, the
\* stop step at 1 (line 615), below, at and above StopStepMin, and a periodic
\* export due right after the freeze.
FreezeRunArgs ==
    [max_train_steps : {StopStepMin + MaxExtra},
     gradient_accumulation_steps : 1 .. MaxGas,
     save_n_steps : {SaveNStepsDefault, SaveNStepsMin},
     save_starting_step : {StopStepMin + 1},
     stop_text_encoder_training :
        {1} \cup ((StopStepMin - 1) .. (StopStepMin + MaxExtra - 1)),
     train_text_encoder : BOOLEAN,
     not_cache_latents : {FALSE},
     save_intermediary_dirs : {0}]

\* Runs long enough for a second periodic export.
LongRunArgs ==
    [max_train_steps : {SaveNStepsMin + MaxStart + MaxExtra},
     gradient_accumulation_steps : 1 .. MaxGas,
     save_n_steps : {SaveNStepsMin},
     save_starting_step : 1 .. MaxStart,
     stop_text_encoder_training : {StopTextEncoderDefault},
     train_text_encoder : {TRUE},
     not_cache_latents : {FALSE},
     save_intermediary_dirs : {0}]

\* the state of every process when main() is entered (lines 590-597, 845)
FreshProcs(n, a) ==
    /\ pc = [p \in 0 .. (n - 1) |-> "start"]
    /\ global_step = [p \in 0 .. (n - 1) |-> 0]
    /\ epoch = [p \in 0 .. (n - 1) |-> 0]
    /\ step = [p \in 0 .. (n - 1) |-> 0]
    /\ i = [p \in 0 .. (n - 1) |-> a.save_starting_step]
    /\ session = [p \in 0 .. (n - 1) |-> DefaultSession]
    /\ unet = [p \in 0 .. (n - 1) |-> 0]
    /\ text_encoder = [p \in 0 .. (n - 1) |-> 0]

ProviderIdle ==
    /\ entries = << >>
    /\ class_images = << >>
    /\ cursor = 0
    /\ taken = << >>
    /\ provider = "idle"

\* no batch is followed
BatchIdle ==
    /\ with_prior_preservation = FALSE
    /\ examples = << >>
    /\ batch = << >>
    /\ latents_cache = << >>
    /\ noise_pred = << >>
    /\ loss_parts = << >>
    /\ bpc = "idle"

\* the rest of a batch when only the option is read
NoBatch ==
    /\ examples = << >>
    /\ batch = << >>
    /\ latents_cache = << >>
    /\ noise_pred = << >>
    /\ loss_parts = << >>
    /\ bpc = "idle"

\* no dataset is followed
DatasetIdle ==
    /\ subfolder_mode = FALSE
    /\ instance_dir = [exists |-> FALSE, entries |-> 0, classes |-> << >>]
    /\ class_dir = << >>
    /\ train_dataset = << >>
    /\ fetched = << >>
    /\ models_loaded = FALSE
    /\ trained = 0

\* no class image generation is under way
GenerateIdle ==
    /\ num_class_images = 0
    /\ found_files = {}
    /\ class_images_dir = {}
    /\ gpc = [p \in {0} |-> "idle"]
    /\ cur_class_images = [p \in {0} |-> 0]
    /\ sample_dataloader = [p \in {0} |-> << >>]
    /\ listing = [p \in {0} |-> {}]
    /\ written = << >>

\* the prompt of an image that has not been fetched
NoPrompt == <<"none">>

\* no prompt is being derived from a file name
PromptIdle ==
    /\ variant = "none"
    /\ filename = << >>
    /\ instance_prompt = NoPrompt

DataIdle == BatchIdle /\ DatasetIdle /\ GenerateIdle /\ PromptIdle

\* a session file found by the first invocation: none, or one that no earlier
\* invocation wrote (empty, oversized, not JSON, JSON without an integer step)
FoundSessionFiles ==
    {NoFile, File("empty", 0), File("large", 0), File("garbage", 0), File("noint", 0)}

\* an output directory no invocation has run on
NewOutputDir ==
    /\ training_dir \in BOOLEAN
    /\ session_file \in FoundSessionFiles
    /\ (session_file # NoFile => training_dir)
    /\ frz_dir = [exists |-> FALSE, te |-> 0, run |-> 0]
    /\ save_dirs = {}
    /\ output_model = [exists |-> FALSE, unet |-> 0, te |-> 0]

\* The first invocation: a short run over any session file found, or a run of
\* many steps (past the freeze step, or to a second periodic export) on an
\* output directory without one.
Init ==
    /\ run = 1
    /\ num_processes \in 1 .. MaxProcs
    /\ dataloader_len \in 1 .. MaxLen
    /\ NewOutputDir
    /\ \/ args \in ShortArgs
       \/ /\ args \in FreezeRunArgs \cup LongRunArgs
          /\ session_file = NoFile
          /\ ~training_dir
    /\ FreshProcs(num_processes, args)
    /\ session_at_start = session_file
    /\ events = {}
    /\ ProviderIdle
    /\ DataIdle

\* The first of several invocations, each of a single process: a short run or
\* one that passes the freeze step, on an output directory without a session
\* file.
InitResume ==
    /\ run = 1
    /\ num_processes = 1
    /\ dataloader_len \in 1 .. MaxLen
    /\ NewOutputDir
    /\ session_file = NoFile
    /\ ~training_dir
    /\ args \in ShortArgs \cup FreezeRunArgs
    /\ FreshProcs(num_processes, args)
    /\ session_at_start = session_file
    /\ events = {}
    /\ ProviderIdle
    /\ DataIdle

\* ------------------------------------------------------------- main(), start
\* lines 853-857: the size test and json.load
SessionLoadPc(f) ==
    IF SessionFileAccepted(f) /\ JsonLoadRaises(f) THEN "err_json" ELSE "batch"

SessionLoadEvents(p, f) ==
    IF SessionFileAccepted(f) THEN {Ev(p, "read_session", 0)} ELSE {}

SessionLoaded(p, f) ==
    IF SessionFileAccepted(f) /\ ~JsonLoadRaises(f) THEN LoadedSession(f)
    ELSE session[p]

\* lines 590-857 when <output_dir>/training exists: argument handling (the
\* ValueError of line 621 ends the process), models, optimizer, dataloader,
\* the test of line 851 and the session load; when the directory is missing
\* the process goes on to create it
Setup(p) ==
    /\ pc[p] = "start"
    /\ IF ConfigRejected
       THEN /\ pc' = [pc EXCEPT ![p] = "err_config"]
            /\ UNCHANGED <<session, events>>
       ELSE IF ~training_dir
       THEN /\ pc' = [pc EXCEPT ![p] = "session_makedirs"]
            /\ UNCHANGED <<session, events>>
       ELSE /\ pc' = [pc EXCEPT ![p] = SessionLoadPc(session_file)]
            /\ session' = [session EXCEPT ![p] = SessionLoaded(p, session_file)]
            /\ events' = events \cup SessionLoadEvents(p, session_file)
    /\ UNCHANGED <<args, num_processes, dataloader_len, run, session_file,
                   training_dir, frz_dir, save_dirs, output_model, global_step,
                   epoch, step, i, unet, text_encoder, session_at_start>>
    /\ UNCHANGED <<providerVars, dataVars>>

\* lines 852-857: os.makedirs(output_dir + '/training'), which raises
\* FileExistsError when another process has created the directory since the
\* test of line 851; then the session load
MakeTrainingDir(p) ==
    /\ pc[p] = "session_makedirs"
    /\ IF training_dir
       THEN /\ pc' = [pc EXCEPT ![p] = "err_makedirs"]
            /\ UNCHANGED <<training_dir, events, session>>
       ELSE /\ training_dir' = TRUE
            /\ pc' = [pc EXCEPT ![p] = SessionLoadPc(session_file)]
            /\ session' = [session EXCEPT ![p] = SessionLoaded(p, session_file)]
            /\ events' = events \cup {Ev(p, "makedirs_training", 0)}
                                \cup SessionLoadEvents(p, session_file)
    /\ UNCHANGED <<args, num_processes, dataloader_len, run, session_file,
                   frz_dir, save_dirs, output_model, global_step,
                   epoch, step, i, unet, text_encoder, session_at_start>>
    /\ UNCHANGED <<providerVars, dataVars>>

\* ------------------------------------------------------- the training loop
\* A process has entered the micro-batch s of epoch e (or is past it): the
\* gradient all-reduce of a synchronizing micro-batch completes only then.
Entered(q, e, s) ==
    /\ epoch[q] = e
    /\ \/ pc[q] \in LoopPcs /\ step[q] >= s
       \/ pc[q] = "barrier"

\* lines 925, 700-702: the optimizer holds the unet parameters and, when the
\* text encoder is trained, the text-encoder parameters; it steps on a
\* synchronizing micro-batch
TextEncoderAfterStep(p, sync) ==
    IF sync /\ train_text_encoder THEN text_encoder[p] + 1 ELSE text_encoder[p]

\* a global_step counted on every micro-batch
GlobalStepAfterEveryBatch(p, sync) == global_step[p] + 1

\* lines 930-932: global_step += 1 if accelerator.sync_gradients
GlobalStepAfter(p, sync) == IF sync THEN global_step[p] + 1 ELSE global_step[p]

\* a break that waits for global_step to pass max_train_steps
BreakNowLate(gs) == gs > args.max_train_steps

\* line 943: if global_step >= args.max_train_steps: break
BreakNow(gs) == gs >= args.max_train_steps

\* line 946
FreezeCondition(gs) ==
    /\ train_text_encoder
    /\ gs = args.stop_text_encoder_training
    /\ gs >= StopStepMin

\* lines 964-965
PeriodicCondition(p, gs) ==
    /\ args.save_n_steps >= SaveNStepsMin
    /\ gs + 1 < args.max_train_steps
    /\ gs + 1 = i[p]

\* the end of the loop body: the next micro-batch of the epoch, or the end of
\* the dataloader (line 865), after which line 1002 waits for everyone
NextPc(p) == IF step[p] + 1 = dataloader_len THEN "barrier" ELSE "batch"

\* where the loop body goes after the freeze block (lines 964-965)
AfterFreeze(p, gs) == IF PeriodicCondition(p, gs) THEN "periodic" ELSE NextPc(p)

\* where the loop body goes after line 941: the break of lines 943-944, the
\* freeze block of the main process (946-960; the other processes print, 962),
\* the periodic block (964), or the next micro-batch
AfterTrain(p, gs) ==
    IF BreakNow(gs) THEN "barrier"
    ELSE IF FreezeCondition(gs) /\ is_main_process(p) THEN "freeze"
    ELSE AfterFreeze(p, gs)

\* enumerate(train_dataloader) moves on when the body has run to its end
StepAfter(p, to) == IF to = "batch" THEN step[p] + 1 ELSE step[p]

\* lines 865-944: one micro-batch: forward, loss, backward, clip, optimizer
\* and scheduler step, the global_step increment and the break test; and the
\* rest of the body (946-1000) when neither the freeze nor the periodic export
\* is due
TrainStep(p) ==
    /\ pc[p] = "batch"
    /\ sync_gradients(step[p]) => \A q \in Procs : Entered(q, epoch[p], step[p])
    /\ unet' = [unet EXCEPT ![p] = IF sync_gradients(step[p]) THEN @ + 1 ELSE @]
    /\ text_encoder' =
          [text_encoder EXCEPT ![p] = TextEncoderAfterStep(p, sync_gradients(step[p]))]
    /\ global_step' =
          [global_step EXCEPT ![p] = GlobalStepAfter(p, sync_gradients(step[p]))]
    /\ pc' = [pc EXCEPT ![p] = AfterTrain(p, global_step'[p])]
    /\ step' = [step EXCEPT ![p] = StepAfter(p, pc'[p])]
    /\ UNCHANGED <<args, num_processes, dataloader_len, run, session_file,
                   training_dir, frz_dir, save_dirs, output_model,
                   epoch, i, session, session_at_start, events>>
    /\ UNCHANGED <<providerVars, dataVars>>

\* lines 947-960: the main process saves the text encoder to
\* <output_dir>/text_encoder_frozen, replacing a directory found there
FreezeTransition(p) ==
    /\ pc[p] = "freeze"
    /\ frz_dir' = [exists |-> TRUE, te |-> text_encoder[p], run |-> run]
    /\ events' = events \cup {Ev(p, "snapshot", global_step[p])}
    /\ pc' = [pc EXCEPT ![p] = AfterFreeze(p, global_step[p])]
    /\ step' = [step EXCEPT ![p] = StepAfter(p, pc'[p])]
    /\ UNCHANGED <<args, num_processes, dataloader_len, run, session_file,
                   training_dir, save_dirs, output_model, global_step,
                   epoch, i, session, unet, text_encoder, session_at_start>>
    /\ UNCHANGED <<providerVars, dataVars>>

\* line 966: session["session_step"] + global_step + 1
PeriodicLabel(p) == session[p].step + global_step[p] + 1

\* lines 966-970, on every process: the checkpoint name (which reads
\* session["session_step"]) and os.path.exists(save_dir); a process that is not
\* the main process has nothing more to do when the directory exists
PeriodicCheck(p) ==
    /\ pc[p] = "periodic"
    /\ pc' = [pc EXCEPT ![p] =
                IF SessionStepRaises(session[p]) THEN "err_session"
                ELSE IF PeriodicLabel(p) \notin save_dirs THEN "periodic_mkdir"
                ELSE IF is_main_process(p) THEN "periodic_save"
                ELSE NextPc(p)]
    /\ step' = [step EXCEPT ![p] = StepAfter(p, pc'[p])]
    /\ UNCHANGED <<args, num_processes, dataloader_len, run, session_file,
                   training_dir, frz_dir, save_dirs, output_model, global_step,
                   epoch, i, session, unet, text_encoder, session_at_start, events>>
    /\ UNCHANGED <<providerVars, dataVars>>

\* line 971: os.mkdir(save_dir), on every process; FileExistsError when another
\* process has created it since the test of line 970
MkdirSaveDir(p) ==
    /\ pc[p] = "periodic_mkdir"
    /\ IF PeriodicLabel(p) \in save_dirs
       THEN /\ pc' = [pc EXCEPT ![p] = "err_mkdir"]
            /\ UNCHANGED <<save_dirs, events, step>>
       ELSE /\ save_dirs' = save_dirs \cup {PeriodicLabel(p)}
            /\ events' = events \cup {Ev(p, "mkdir_save_dir", PeriodicLabel(p))}
            /\ pc' = [pc EXCEPT ![p] =
                        IF is_main_process(p) THEN "periodic_save" ELSE NextPc(p)]
            /\ step' = [step EXCEPT ![p] = StepAfter(p, pc'[p])]
    /\ UNCHANGED <<args, num_processes, dataloader_len, run, session_file,
                   training_dir, frz_dir, output_model, global_step,
                   epoch, i, session, unet, text_encoder, session_at_start>>
    /\ UNCHANGED <<providerVars, dataVars>>

\* an export that keeps the text encoder of the pipeline
ExportedTextEncoderCurrent(p) == text_encoder[p]

\* lines 984-989 and 1014-1019: the text encoder of an export is the frozen
\* snapshot when the text encoder is trained and the snapshot directory exists
ExportedTextEncoder(p) ==
    IF train_text_encoder /\ frz_dir.exists THEN frz_dir.te ELSE text_encoder[p]

\* a target step that is not moved on after an export
NextTargetKept(p) == i[p]

\* line 992
NextTarget(p) == i[p] + args.save_n_steps

\* lines 994-996
SaveDirsAfterExport(p) ==
    IF args.save_intermediary_dirs = 0
    THEN save_dirs \ {PeriodicLabel(p)}
    ELSE save_dirs \cup {PeriodicLabel(p)}

\* lines 976-996: the periodic export of the main process: the pipeline is
\* built (NameError when text_encoder was deleted at line 789), saved to the
\* working directory, the snapshot restored, the converter run, the target
\* advanced and the working directory removed
PeriodicExport(p) ==
    /\ pc[p] = "periodic_save"
    /\ IF text_encoder_deleted
       THEN /\ pc' = [pc EXCEPT ![p] = "err_export"]
            /\ UNCHANGED <<step, save_dirs, i, events>>
       ELSE /\ events' = events \cup
                  {Ev(p, "save_periodic", PeriodicLabel(p)),
                   Event(p, "convert_periodic", PeriodicLabel(p), unet[p],
                         ExportedTextEncoder(p))}
            /\ i' = [i EXCEPT ![p] = NextTarget(p)]
            /\ save_dirs' = SaveDirsAfterExport(p)
            /\ pc' = [pc EXCEPT ![p] = NextPc(p)]
            /\ step' = [step EXCEPT ![p] = StepAfter(p, pc'[p])]
    /\ UNCHANGED <<args, num_processes, dataloader_len, run, session_file,
                   training_dir, frz_dir, output_model, global_step,
                   epoch, session, unet, text_encoder, session_at_start>>
    /\ UNCHANGED <<providerVars, dataVars>>

\* after the last epoch: the final export of the main process (line 1005), the
\* session save on the others (line 1030)
AfterLoop(p) == IF is_main_process(p) THEN "final_export" ELSE "session_save"

\* line 1002: accelerator.wait_for_everyone() at the end of every epoch, also
\* after the break of line 944; then the next epoch of line 861 or the end
EpochBarrier(p) ==
    /\ pc[p] = "barrier"
    /\ \A q \in Procs : \/ pc[q] = "barrier" /\ epoch[q] = epoch[p]
                        \/ epoch[q] > epoch[p]
    /\ epoch' = [epoch EXCEPT ![p] = @ + 1]
    /\ step' = [step EXCEPT ![p] = 0]
    /\ pc' = [pc EXCEPT ![p] =
                IF epoch[p] + 1 < num_train_epochs THEN "batch" ELSE AfterLoop(p)]
    /\ UNCHANGED <<args, num_processes, dataloader_len, run, session_file,
                   training_dir, frz_dir, save_dirs, output_model, global_step,
                   i, session, unet, text_encoder, session_at_start, events>>
    /\ UNCHANGED <<providerVars, dataVars>>

\* --------------------------------------------------------- after the loop
\* lines 1005-1020: the final export of the main process: the pipeline is built
\* (NameError when text_encoder was deleted at line 789) and saved to
\* output_dir; the snapshot is copied over its text encoder and removed
FinalExport(p) ==
    /\ pc[p] = "final_export"
    /\ IF text_encoder_deleted
       THEN /\ pc' = [pc EXCEPT ![p] = "err_final_export"]
            /\ UNCHANGED <<output_model, frz_dir, events>>
       ELSE /\ output_model' = [exists |-> TRUE, unet |-> unet[p],
                                te |-> ExportedTextEncoder(p)]
            /\ frz_dir' = IF train_text_encoder /\ frz_dir.exists
                          THEN [exists |-> FALSE, te |-> 0, run |-> 0]
                          ELSE frz_dir
            /\ events' = events \cup
                  {Event(p, "save_final", 0, unet[p], ExportedTextEncoder(p))}
            /\ pc' = [pc EXCEPT ![p] = "session_save"]
    /\ UNCHANGED <<args, num_processes, dataloader_len, run, session_file,
                   training_dir, save_dirs, global_step,
                   epoch, step, i, session, unet, text_encoder, session_at_start>>
    /\ UNCHANGED <<providerVars, dataVars>>

\* the session step overwritten with the steps of the run instead of added to
SessionAfterRunOverwrite(p) == [session[p] EXCEPT !.step = args.max_train_steps]

\* line 1030: session["session_step"] += args.max_train_steps
SessionAfterRun(p) ==
    [session[p] EXCEPT !.step = @ + args.max_train_steps]

\* lines 1030-1036: the session is advanced and written, on every process
SaveSession(p) ==
    /\ pc[p] = "session_save"
    /\ IF SessionStepRaises(session[p])
       THEN /\ pc' = [pc EXCEPT ![p] = "err_session"]
            /\ UNCHANGED <<session, session_file, training_dir, events>>
       ELSE /\ session' = [session EXCEPT ![p] = SessionAfterRun(p)]
            /\ training_dir' = TRUE
            /\ session_file' = File("valid", session'[p].step)
            /\ events' = events \cup
                  ({Ev(p, "write_session", session'[p].step)} \cup
                   (IF training_dir THEN {} ELSE {Ev(p, "makedirs_training", 0)}))
            /\ pc' = [pc EXCEPT ![p] = "final_ckpt"]
    /\ UNCHANGED <<args, num_processes, dataloader_len, run,
                   frz_dir, save_dirs, output_model, global_step,
                   epoch, step, i, unet, text_encoder, session_at_start>>
    /\ UNCHANGED <<providerVars, dataVars>>

\* line 1040: the name of the final checkpoint holds str(session["session_step"])
FinalLabel(p) == session[p].step

\* lines 1039-1051: when <output_dir>/unet/diffusion_pytorch_model.bin exists the
\* converter is run on output_dir, on every process
FinalConversion(p) ==
    /\ pc[p] = "final_ckpt"
    /\ events' = events \cup
          (IF output_model.exists
           THEN {Event(p, "convert_final", FinalLabel(p), output_model.unet,
                       output_model.te)}
           ELSE {})
    /\ pc' = [pc EXCEPT ![p] = "done"]
    /\ UNCHANGED <<args, num_processes, dataloader_len, run, session_file,
                   training_dir, frz_dir, save_dirs, output_model, global_step,
                   epoch, step, i, session, unet, text_encoder, session_at_start>>
    /\ UNCHANGED <<providerVars, dataVars>>

\* ------------------------------------------------------- the next invocation
\* The invocation is over when every process has returned from main(), or when
\* a process has died of an exception (the launcher then stops the others).
RunOver ==
    \/ \A p \in Procs : pc[p] = "done"
    \/ \E p \in Procs : Crashed(p)

\* The same command is started again on the same output directory, for
\* max_train_steps more steps.
NewInvocation ==
    /\ run < MaxRuns
    /\ RunOver
    /\ run' = run + 1
    /\ \E m \in 1 .. MaxTrainSteps : args' = [args EXCEPT !.max_train_steps = m]
    /\ UNCHANGED <<num_processes, dataloader_len>>
    /\ pc' = [p \in 0 .. (num_processes' - 1) |-> "start"]
    /\ global_step' = [p \in 0 .. (num_processes' - 1) |-> 0]
    /\ epoch' = [p \in 0 .. (num_processes' - 1) |-> 0]
    /\ step' = [p \in 0 .. (num_processes' - 1) |-> 0]
    /\ i' = [p \in 0 .. (num_processes' - 1) |-> args'.save_starting_step]
    /\ session' = [p \in 0 .. (num_processes' - 1) |-> DefaultSession]
    /\ unet' = [p \in 0 .. (num_processes' - 1) |-> 0]
    /\ text_encoder' = [p \in 0 .. (num_processes' - 1) |-> 0]
    /\ session_at_start' = session_file
    /\ events' = {}
    /\ UNCHANGED <<session_file, training_dir, frz_dir, save_dirs, output_model>>
    /\ UNCHANGED <<providerVars, dataVars>>

\* one invocation
NextRun ==
    \/ \E p \in Procs : Setup(p)
    \/ \E p \in Procs : MakeTrainingDir(p)
    \/ \E p \in Procs : TrainStep(p)
    \/ \E p \in Procs : FreezeTransition(p)
    \/ \E p \in Procs : PeriodicCheck(p)
    \/ \E p \in Procs : MkdirSaveDir(p)
    \/ \E p \in Procs : PeriodicExport(p)
    \/ \E p \in Procs : EpochBarrier(p)
    \/ \E p \in Procs : FinalExport(p)
    \/ \E p \in Procs : SaveSession(p)
    \/ \E p \in Procs : FinalConversion(p)

Spec == Init /\ [][NextRun]_vars

\* Runs that export after the freeze step: a periodic export due one or more
\* steps after the snapshot, then the final export.
LateExportArgs ==
    [max_train_steps : {StopStepMin + MaxExtra + 1},
     gradient_accumulation_steps : 1 .. MaxGas,
     save_n_steps : {SaveNStepsMin},
     save_starting_step : (StopStepMin + 1) .. (StopStepMin + MaxExtra),
     stop_text_encoder_training : {StopStepMin, StopStepMin + 1},
     train_text_encoder : {TRUE},
     not_cache_latents : BOOLEAN,
     save_intermediary_dirs : {0}]

\* one invocation that trains the text encoder past the freeze step, on an
\* output directory no invocation has run on
InitFreeze ==
    /\ run = 1
    /\ num_processes \in 1 .. MaxProcs
    /\ dataloader_len \in 1 .. MaxLen
    /\ NewOutputDir
    /\ session_file = NoFile
    /\ ~training_dir
    /\ args \in LateExportArgs
    /\ FreshProcs(num_processes, args)
    /\ session_at_start = session_file
    /\ events = {}
    /\ ProviderIdle
    /\ DataIdle

SpecFreeze == InitFreeze /\ [][NextRun]_vars

\* invocations one after the other on the same output directory
Next == NextRun \/ NewInvocation

SpecResume == InitResume /\ [][Next]_vars

\* The first of several invocations of 1 to MaxProcs processes that train the
\* text encoder past the freeze step, over any session file found.
InitStale ==
    /\ run = 1
    /\ num_processes \in 1 .. MaxProcs
    /\ dataloader_len \in 1 .. MaxLen
    /\ NewOutputDir
    /\ args \in {a \in FreezeRunArgs : a.train_text_encoder}
    /\ FreshProcs(num_processes, args)
    /\ session_at_start = session_file
    /\ events = {}
    /\ ProviderIdle
    /\ DataIdle

SpecStale == InitStale /\ [][Next]_vars

\* ------------------------------------------------------- ClassDataProvider
\* the non-directory entries of the class directory (line 280)
Files(d) == {x \in DOMAIN d : d[x] = "file"}

\* the orders in which iterdir() can list a set of entries
Listings(S) ==
    {l \in [1 .. Cardinality(S) -> S] : \A a, b \in DOMAIN l : l[a] = l[b] => a = b}

\* lines 272-283: __init__ lists the files of the class directory, sets the
\* cursor to 0 and raises ValueError when there is no file
Construct ==
    /\ provider = "new"
    /\ class_images' \in Listings(Files(entries))
    /\ cursor' = 0
    /\ provider' = IF Cardinality(Files(entries)) <= 0 THEN "error" ELSE "ready"
    /\ UNCHANGED <<entries, taken>>
    /\ UNCHANGED <<runVars, dataVars>>

\* a cursor that wraps one image early
CursorAfterEarlyWrap(c, n) == IF c + 2 >= n THEN 0 ELSE c + 1

\* line 287
CursorAfter(c, n) == (c + 1) % n

\* lines 285-288: take_one
take_one ==
    /\ provider = "ready"
    /\ Len(taken) < MaxCalls
    /\ taken' = Append(taken, class_images[cursor + 1])
    /\ cursor' = CursorAfter(cursor, Len(class_images))
    /\ UNCHANGED <<entries, class_images, provider>>
    /\ UNCHANGED <<runVars, dataVars>>

\* no training run is followed: one process that has not started
RunIdleWith(n) ==
    /\ run = 1
    /\ num_processes = n
    /\ dataloader_len = 1
    /\ training_dir = FALSE
    /\ session_file = NoFile
    /\ frz_dir = [exists |-> FALSE, te |-> 0, run |-> 0]
    /\ save_dirs = {}
    /\ output_model = [exists |-> FALSE, unet |-> 0, te |-> 0]
    /\ FreshProcs(num_processes, args)
    /\ session_at_start = session_file
    /\ events = {}

RunIdle == RunIdleWith(1)

\* the options of a run that are read outside the training loop
IdleArgs ==
    {a \in ShortArgs : /\ a.max_train_steps = 1
                       /\ a.gradient_accumulation_steps = 1
                       /\ a.save_n_steps = SaveNStepsDefault}

\* a class directory of up to MaxEntries entries, files and subdirectories,
\* and no training run
InitProvider ==
    /\ \E n \in 0 .. MaxEntries : entries \in [1 .. n -> {"file", "dir"}]
    /\ class_images = << >>
    /\ cursor = 0
    /\ taken = << >>
    /\ provider = "new"
    /\ args \in {a \in IdleArgs : a.train_text_encoder /\ a.not_cache_latents}
    /\ RunIdle
    /\ DataIdle

NextProvider == Construct \/ take_one

SpecProvider == InitProvider /\ [][NextProvider]_vars

\* ------------------------------------------------ one batch, to the loss
\* An example of the dataset (lines 375-399, 480-498): an instance image and its
\* prompt and, when the dataset holds class images, a class image and prompt.
Pixels(kind, x) == [form |-> "pixels", kind |-> kind, image |-> x]
PromptIds(kind, x) == [form |-> "ids", kind |-> kind, image |-> x]

Example(x, y) ==
    [instance_images |-> Pixels("instance", x),
     instance_prompt_ids |-> PromptIds("instance", x),
     class_images |-> Pixels("class", y),
     class_prompt_ids |-> PromptIds("class", y)]

\* an interleaved concatenation: instance and class rows of an example side by side
collate_fn_interleaved(exs) ==
    [input_ids |->
        [k \in 1 .. (IF with_prior_preservation THEN 2 * Len(exs) ELSE Len(exs)) |->
            IF ~with_prior_preservation THEN exs[k].instance_prompt_ids
            ELSE IF k % 2 = 1 THEN exs[(k + 1) \div 2].instance_prompt_ids
            ELSE exs[k \div 2].class_prompt_ids],
     pixel_values |->
        [k \in 1 .. (IF with_prior_preservation THEN 2 * Len(exs) ELSE Len(exs)) |->
            IF ~with_prior_preservation THEN exs[k].instance_images
            ELSE IF k % 2 = 1 THEN exs[(k + 1) \div 2].instance_images
            ELSE exs[k \div 2].class_images]]

\* lines 734-753: the instance rows, then (with prior preservation) the class
\* rows, stacked along the batch dimension
collate_fn(exs) ==
    [input_ids |->
        [k \in 1 .. Len(exs) |-> exs[k].instance_prompt_ids]
            \o (IF with_prior_preservation
                   THEN [k \in 1 .. Len(exs) |-> exs[k].class_prompt_ids]
                   ELSE << >>),
     pixel_values |->
        [k \in 1 .. Len(exs) |-> exs[k].instance_images]
            \o (IF with_prior_preservation
                   THEN [k \in 1 .. Len(exs) |-> exs[k].class_images]
                   ELSE << >>)]

\* vae.encode(...).latent_dist and text_encoder(...)[0] work row by row; the
\* text encoder embeds token ids, and nothing else
Latent(row) == [row EXCEPT !.form = "latent"]
Hidden(row) == [row EXCEPT !.form = IF row.form = "ids" THEN "hidden" ELSE "invalid"]

\* lines 779-783: the cached pair of one batch; the token rows are kept as
\* they are when the text encoder is trained, encoded otherwise
CachedBatch(b) ==
    << [k \in 1 .. Len(b.pixel_values) |-> Latent(b.pixel_values[k])],
       IF train_text_encoder THEN b.input_ids
       ELSE [k \in 1 .. Len(b.input_ids) |-> Hidden(b.input_ids[k])] >>

\* lines 871-875: the latents of the step, from the cache or from the vae
StepLatents ==
    IF ~args.not_cache_latents THEN latents_cache[1]
    ELSE [k \in 1 .. Len(batch.pixel_values) |-> Latent(batch.pixel_values[k])]

\* a step that takes the second entry of the cache as it is
StepHiddenFromCache ==
    IF ~args.not_cache_latents THEN latents_cache[2]
    ELSE [k \in 1 .. Len(batch.input_ids) |-> Hidden(batch.input_ids[k])]

\* lines 889-896: the text embeddings of the step
StepHidden ==
    IF ~args.not_cache_latents
    THEN IF train_text_encoder
         THEN [k \in 1 .. Len(latents_cache[2]) |-> Hidden(latents_cache[2][k])]
         ELSE latents_cache[2]
    ELSE [k \in 1 .. Len(batch.input_ids) |-> Hidden(batch.input_ids[k])]

\* line 899: the unet predicts the noise of each latent row under its embedding
Predict(l, h) == [k \in 1 .. Len(l) |-> [latent |-> l[k], hidden |-> h[k]]]

\* torch.chunk(x, n) along the batch dimension: pieces of ceil(len / n) rows
Chunk(x, n) ==
    LET c == CeilDiv(Len(x), n)
        m == CeilDiv(Len(x), c)
    IN  [j \in 1 .. m |-> SubSeq(x, (j - 1) * c + 1,
                                 IF j * c <= Len(x) THEN j * c ELSE Len(x))]

\* lines 901-915: the rows of the instance loss and of the prior loss
LossParts(pred) ==
    IF with_prior_preservation
    THEN [instance |-> Chunk(pred, 2)[1], prior |-> Chunk(pred, 2)[2]]
    ELSE [instance |-> pred, prior |-> << >>]

\* line 755-757: the dataloader collates train_batch_size examples
Collate ==
    /\ bpc = "examples"
    /\ batch' = collate_fn(examples)
    /\ bpc' = "collated"
    /\ UNCHANGED <<with_prior_preservation, examples, latents_cache, noise_pred,
                   loss_parts>>
    /\ UNCHANGED <<runVars, providerVars, datasetVars, generateVars, promptVars>>

\* lines 772-785: the batch is encoded once and kept
CacheLatents ==
    /\ bpc = "collated"
    /\ ~args.not_cache_latents
    /\ latents_cache' = CachedBatch(batch)
    /\ bpc' = "cached"
    /\ UNCHANGED <<with_prior_preservation, examples, batch, noise_pred, loss_parts>>
    /\ UNCHANGED <<runVars, providerVars, datasetVars, generateVars, promptVars>>

\* lines 868-899: the forward pass of one micro-batch, of the first epoch or
\* of a later one that meets the batch again
Forward ==
    /\ \/ bpc = "cached"
       \/ bpc = "collated" /\ args.not_cache_latents
       \/ bpc = "loss"
    /\ noise_pred' = Predict(StepLatents, StepHidden)
    /\ bpc' = "forward"
    /\ UNCHANGED <<with_prior_preservation, examples, batch, latents_cache,
                   loss_parts>>
    /\ UNCHANGED <<runVars, providerVars, datasetVars, generateVars, promptVars>>

\* lines 901-915
ComputeLoss ==
    /\ bpc = "forward"
    /\ loss_parts' = LossParts(noise_pred)
    /\ bpc' = "loss"
    /\ UNCHANGED <<with_prior_preservation, examples, batch, latents_cache,
                   noise_pred>>
    /\ UNCHANGED <<runVars, providerVars, datasetVars, generateVars, promptVars>>

\* the batches of 1 .. MaxBatch examples over MaxImages instance and class images
BatchesOfExamples ==
    UNION {[1 .. n -> {Example(x, y) : x \in 1 .. MaxImages, y \in 1 .. MaxImages}] :
              n \in 1 .. MaxBatch}

InitBatch ==
    /\ with_prior_preservation \in BOOLEAN
    /\ examples \in BatchesOfExamples
    /\ batch = << >>
    /\ latents_cache = << >>
    /\ noise_pred = << >>
    /\ loss_parts = << >>
    /\ bpc = "examples"
    /\ args \in IdleArgs
    /\ RunIdle
    /\ ProviderIdle
    /\ DatasetIdle
    /\ GenerateIdle
    /\ PromptIdle

NextBatch == Collate \/ CacheLatents \/ Forward \/ ComputeLoss

SpecBatch == InitBatch /\ [][NextBatch]_vars

\* ------------------------------------------------------------- datasets
\* Paths.  An instance image of the subfolder mode lies in
\* <instance_data_dir>/<class>/<group>/; one of the flat mode is an entry of
\* <instance_data_dir> (class and group 0).  A class image lies in
\* <class_data_dir>/<class>/, or in <class_data_dir> itself (class 0).
InstancePath(c, g, j) == [class |-> c, group |-> g, image |-> j]
ClassPath(c, j) == [class |-> c, image |-> j]
NoClassImage == ClassPath(0, 0)
NoInstanceImage == InstancePath(0, 0, 0)

Max(a, b) == IF a >= b THEN a ELSE b

\* the non-directory entries of a group subfolder of n images (line 334)
ImagesOfGroup(c, g, n) == [j \in 1 .. n |-> InstancePath(c, g, j)]

\* lines 333-335, over the group subfolders g, g + 1, ... of a class subfolder
RECURSIVE ImagesOfGroups(_, _, _)
ImagesOfGroups(c, groups, g) ==
    IF g > Len(groups) THEN << >>
    ELSE ImagesOfGroup(c, g, groups[g]) \o ImagesOfGroups(c, groups, g + 1)

\* lines 321-335, over the class subfolders k, k + 1, ...
RECURSIVE ImagesOfClasses(_, _)
ImagesOfClasses(cls, k) ==
    IF k > Len(cls) THEN << >>
    ELSE ImagesOfGroups(cls[k].name, cls[k].groups, 1) \o ImagesOfClasses(cls, k + 1)

\* a cap on the class subfolders that already refuses MaxClassSubdirs of them
TooManyClassesAtCap(n) == n >= MaxClassSubdirs

\* line 317
TooManyClasses(n) == n > MaxClassSubdirs

\* line 331
TooManyGroups(n) == n > MaxGroupDirs

\* lines 280-283: the provider of a class, over the files of its class directory
NewProvider(c) ==
    [class_images |-> [j \in 1 .. class_dir[c] |-> ClassPath(c, j)], cursor |-> 0]

\* lines 282-283 and 331-332: the class subfolders at which __init__ raises
FailingClasses(cls) ==
    {k \in 1 .. Len(cls) : class_dir[cls[k].name] = 0 \/ TooManyGroups(Len(cls[k].groups))}

\* the smallest element of a non-empty set of numbers
Least(S) == CHOOSE k \in S : \A m \in S : k <= m

\* the exception of SubfolderModeDataset.__init__ (lines 310-332), "none" if none
SubfolderError(dir) ==
    IF ~dir.exists THEN "NoInstanceRoot"
    ELSE IF Len(dir.classes) <= 0 THEN "NoClassSubfolders"
    ELSE IF TooManyClasses(Len(dir.classes)) THEN "TooManyClassSubfolders"
    ELSE IF FailingClasses(dir.classes) = {} THEN "none"
    ELSE IF class_dir[dir.classes[Least(FailingClasses(dir.classes))].name] = 0
         THEN "EmptyClassDirectory"
    ELSE "TooManyGroupSubfolders"

Dataset(kind, err, paths, cpaths, len, provs) ==
    [kind |-> kind,
     status |-> IF err = "none" THEN "ready" ELSE "error",
     error |-> err,
     instance_images_path |-> paths,
     num_instance_images |-> Len(paths),
     class_images_path |-> cpaths,
     num_class_images |-> Len(cpaths),
     length |-> len,
     classes |-> provs]

\* lines 297-338
SubfolderModeDataset(dir) ==
    IF SubfolderError(dir) # "none"
    THEN Dataset("subfolder", SubfolderError(dir), << >>, << >>, 0, << >>)
    ELSE Dataset("subfolder", "none", ImagesOfClasses(dir.classes, 1), << >>,
                 Len(ImagesOfClasses(dir.classes, 1)),
                 [c \in {dir.classes[k].name : k \in 1 .. Len(dir.classes)} |->
                     NewProvider(c)])

\* a length that ignores the class images
FlatLengthOfInstances(ni, nc) == ni

\* lines 433 and 443: self._length
FlatLength(ni, nc) == IF with_prior_preservation THEN Max(nc, ni) ELSE ni

\* lines 410-446
DreamBoothDataset(dir) ==
    IF ~dir.exists
    THEN Dataset("flat", "NoInstanceRoot", << >>, << >>, 0, << >>)
    ELSE Dataset("flat", "none",
                 [j \in 1 .. dir.entries |-> InstancePath(0, 0, j)],
                 IF with_prior_preservation
                    THEN [j \in 1 .. class_dir[0] |-> ClassPath(0, j)] ELSE << >>,
                 FlatLength(dir.entries, class_dir[0]),
                 << >>)

\* lines 665-668: the text encoder, the vae and the unet are loaded
LoadModels ==
    /\ ~models_loaded
    /\ models_loaded' = TRUE
    /\ UNCHANGED <<subfolder_mode, instance_dir, class_dir, train_dataset, fetched,
                   trained>>
    /\ UNCHANGED <<runVars, providerVars, batchVars, generateVars, promptVars>>

\* lines 713-732: main() builds the dataset of the mode, after the models
Construct_train_dataset ==
    /\ models_loaded
    /\ train_dataset = << >>
    /\ train_dataset' = IF subfolder_mode THEN SubfolderModeDataset(instance_dir)
                        ELSE DreamBoothDataset(instance_dir)
    /\ UNCHANGED <<subfolder_mode, instance_dir, class_dir, fetched, models_loaded,
                   trained>>
    /\ UNCHANGED <<runVars, providerVars, batchVars, generateVars, promptVars>>

\* a class prompt that is the first class subfolder's, whatever the image
ClassPromptOfFirst(path) == instance_dir.classes[1].name

\* line 384: path.parent.parent.name
ClassPromptOf(path) == path.class

Fetched(index, path, cpath, err) ==
    [index |-> index, instance |-> path, class_image |-> cpath, error |-> err]

\* lines 355-401: SubfolderModeDataset.__getitem__
GetItemSubfolder(index) ==
    /\ train_dataset # << >>
    /\ train_dataset.kind = "subfolder" /\ train_dataset.status = "ready"
    /\ LET path == train_dataset.instance_images_path[
                       (index % train_dataset.num_instance_images) + 1]
           c == ClassPromptOf(path)
           class_data == train_dataset.classes[c]
       IN  /\ fetched' = Append(fetched,
                  Fetched(index, path, class_data.class_images[class_data.cursor + 1],
                          "none"))
           /\ train_dataset' =
                  [train_dataset EXCEPT !.classes[c].cursor =
                      CursorAfter(class_data.cursor, Len(class_data.class_images))]
    /\ UNCHANGED <<subfolder_mode, instance_dir, class_dir, models_loaded, trained>>
    /\ UNCHANGED <<runVars, providerVars, batchVars, generateVars, promptVars>>

\* lines 460-500: DreamBoothDataset.__getitem__; a modulo by zero raises
\* ZeroDivisionError, which ends the run
GetItemFlat(index) ==
    /\ train_dataset # << >>
    /\ train_dataset.kind = "flat" /\ train_dataset.status = "ready"
    /\ IF train_dataset.num_instance_images = 0
          \/ (with_prior_preservation /\ train_dataset.num_class_images = 0)
       THEN /\ fetched' = Append(fetched,
                   Fetched(index, NoInstanceImage, NoClassImage, "ZeroDivisionError"))
            /\ train_dataset' = [train_dataset EXCEPT !.status = "failed"]
       ELSE /\ fetched' = Append(fetched,
                   Fetched(index,
                           train_dataset.instance_images_path[
                               (index % train_dataset.num_instance_images) + 1],
                           IF with_prior_preservation
                              THEN train_dataset.class_images_path[
                                       (index % train_dataset.num_class_images) + 1]
                              ELSE NoClassImage,
                           "none"))
            /\ UNCHANGED train_dataset
    /\ UNCHANGED <<subfolder_mode, instance_dir, class_dir, models_loaded, trained>>
    /\ UNCHANGED <<runVars, providerVars, batchVars, generateVars, promptVars>>

\* the dataloader asks for the examples 0 .. len - 1, in any order (shuffle)
GetItem ==
    /\ train_dataset # << >>
    /\ Len(fetched) < MaxRequests
    /\ \E index \in 0 .. (train_dataset.length - 1) :
          GetItemSubfolder(index) \/ GetItemFlat(index)

\* lines 861-927: a micro-batch is trained on an example the dataset has
\* produced, kept in the cache of lines 775-785 or fetched by the dataloader
TrainBatch ==
    /\ train_dataset # << >>
    /\ train_dataset.status = "ready"
    /\ trained < Len(fetched)
    /\ trained' = trained + 1
    /\ UNCHANGED <<subfolder_mode, instance_dir, class_dir, train_dataset, fetched,
                   models_loaded>>
    /\ UNCHANGED <<runVars, providerVars, batchVars, generateVars, promptVars>>

\* the names a class subfolder can have
ClassNames == 1 .. (MaxClassSubdirs + MaxOver)

\* instance directories of the subfolder mode around the caps of lines 317 and
\* 331: up to MaxOver class subfolders and group subfolders too many
CapDirs ==
    UNION {[1 .. n -> [name : ClassNames,
                       groups : {[g \in 1 .. m |-> 0] :
                                    m \in {0} \cup (MaxGroupDirs .. (MaxGroupDirs + MaxOver))}]] :
              n \in 0 .. (MaxClassSubdirs + MaxOver)}

\* small instance directories of the subfolder mode: two class subfolders of
\* one or two group subfolders of at most one image
SmallDirs ==
    [1 .. 2 -> [name : 1 .. 2,
                groups : UNION {[1 .. m -> 0 .. 1] : m \in 1 .. 2}]]

\* the class subfolders of a directory have different names, listed in order
DistinctNames(cls) == \A k \in 1 .. Len(cls) : cls[k].name = k

InitSubfolder ==
    /\ subfolder_mode = TRUE
    /\ with_prior_preservation = TRUE
    /\ \/ /\ \E cls \in CapDirs :
                /\ DistinctNames(cls)
                /\ instance_dir = [exists |-> TRUE, entries |-> 0, classes |-> cls]
          /\ class_dir \in [{0} \cup ClassNames -> 0 .. 1]
          /\ \A c \in {0} \cup ClassNames :
                (c = 0 \/ c > Len(instance_dir.classes)) => class_dir[c] = 0
       \/ /\ \E cls \in SmallDirs :
                /\ DistinctNames(cls)
                /\ instance_dir = [exists |-> TRUE, entries |-> 0, classes |-> cls]
          /\ class_dir \in [{0} \cup ClassNames -> 0 .. MaxImages]
          /\ \A c \in {0} \cup ClassNames : (c = 0 \/ c > 2) => class_dir[c] = 0

InitFlat ==
    /\ subfolder_mode = FALSE
    /\ with_prior_preservation \in BOOLEAN
    /\ \E n \in 0 .. MaxRequests, e \in BOOLEAN :
          /\ ~e => n = 0
          /\ instance_dir = [exists |-> e, entries |-> n, classes |-> << >>]
    /\ class_dir \in [{0} \cup ClassNames -> 0 .. MaxRequests]
    /\ \A c \in {0} \cup ClassNames :
          (c # 0 \/ ~with_prior_preservation) => class_dir[c] = 0

\* main() after line 640: the directories as the generation step has left
\* them, no model loaded and no dataset yet
InitDataset ==
    /\ InitSubfolder \/ InitFlat
    /\ train_dataset = << >>
    /\ fetched = << >>
    /\ models_loaded = FALSE
    /\ trained = 0
    /\ NoBatch
    /\ args \in {a \in IdleArgs : a.train_text_encoder /\ a.not_cache_latents}
    /\ RunIdle
    /\ ProviderIdle
    /\ GenerateIdle
    /\ PromptIdle

NextDataset == LoadModels \/ Construct_train_dataset \/ GetItem \/ TrainBatch

SpecDataset == InitDataset /\ [][NextDataset]_vars

\* ------------------------------------------------ class image generation
\* generate_class_samples for one class directory, run by every process of
\* the job, and the listing of the directory by the dataset each process
\* builds afterwards. The files of the directory are known by their names:
\* the file n is "n.jpg"; a file that is found under a name of MaxTarget or
\* more stands for any name the generation never writes. The images are
\* sampled one per batch (--sample_batch_size 1).

\* the names a file of the class directory can be found under
FileNames == 0 .. MaxTarget

\* line 573: the index the prepared dataloader hands to process p in round r
\* of n prompts sharded over N processes: the batches go round the processes,
\* and the last round is completed with the first prompts again
ShardIndex(p, r, n, N) ==
    LET idx == (r * N) + p
    IN  IF idx < n THEN idx ELSE (idx - n) % n

\* line 573: the indices process p samples, in order
Shard(p, n, N) == [r \in 1 .. CeilDiv(n, N) |-> ShardIndex(p, r - 1, n, N)]

\* line 583: the name of the file an image is saved under
FileName(index, cur) == index + cur

\* lines 557-573: process p counts the entries of the directory, returns when
\* the target is met, and prepares its share of the prompts otherwise
CountClassImages(p) ==
    /\ gpc[p] = "generate"
    /\ LET cur == Cardinality(class_images_dir)
           num_new_images == num_class_images - cur
       IN  /\ cur_class_images' = [cur_class_images EXCEPT ![p] = cur]
           /\ IF num_new_images <= 0
              THEN /\ gpc' = [gpc EXCEPT ![p] = "generated"]
                   /\ UNCHANGED sample_dataloader
              ELSE /\ gpc' = [gpc EXCEPT ![p] = "sampling"]
                   /\ sample_dataloader' =
                          [sample_dataloader EXCEPT
                              ![p] = Shard(p, num_new_images, num_processes)]
    /\ UNCHANGED <<num_class_images, found_files, class_images_dir, listing, written>>
    /\ UNCHANGED <<runVars, providerVars, batchVars, datasetVars, promptVars>>

\* lines 576-583: process p samples its next image and saves it; the loop
\* ends, and generate_class_samples returns, after the last one
SaveImage(p) ==
    /\ gpc[p] = "sampling"
    /\ LET name == FileName(Head(sample_dataloader[p]), cur_class_images[p])
       IN  /\ class_images_dir' = class_images_dir \cup {name}
           /\ written' = Append(written, [proc |-> p, name |-> name,
                                          replaced |-> name \in class_images_dir])
    /\ sample_dataloader' = [sample_dataloader EXCEPT ![p] = Tail(@)]
    /\ gpc' = [gpc EXCEPT ![p] = IF Len(sample_dataloader[p]) = 1
                                 THEN "generated" ELSE "sampling"]
    /\ UNCHANGED <<num_class_images, found_files, cur_class_images, listing>>
    /\ UNCHANGED <<runVars, providerVars, batchVars, datasetVars, promptVars>>

\* lines 713-732: process p builds its dataset, which lists the class
\* directory (lines 277 and 438); nothing makes it wait for the others
ListClassImages(p) ==
    /\ gpc[p] = "generated"
    /\ gpc' = [gpc EXCEPT ![p] = "built"]
    /\ listing' = [listing EXCEPT ![p] = class_images_dir]
    /\ UNCHANGED <<num_class_images, found_files, class_images_dir,
                   cur_class_images, sample_dataloader, written>>
    /\ UNCHANGED <<runVars, providerVars, batchVars, datasetVars, promptVars>>

\* main() at line 627 with prior preservation: a class directory holding
\* any files, any target, and 1 to MaxProcs processes
InitGenerate ==
    /\ args \in {a \in IdleArgs : a.train_text_encoder /\ a.not_cache_latents}
    /\ num_class_images \in 0 .. MaxTarget
    /\ found_files \in SUBSET FileNames
    /\ class_images_dir = found_files
    /\ \E n \in 1 .. MaxProcs :
          /\ RunIdleWith(n)
          /\ gpc = [p \in 0 .. (n - 1) |-> "generate"]
          /\ cur_class_images = [p \in 0 .. (n - 1) |-> 0]
          /\ sample_dataloader = [p \in 0 .. (n - 1) |-> << >>]
          /\ listing = [p \in 0 .. (n - 1) |-> {}]
    /\ written = << >>
    /\ ProviderIdle
    /\ BatchIdle
    /\ DatasetIdle
    /\ PromptIdle

NextGenerate ==
    \/ \E p \in Procs : CountClassImages(p)
    \/ \E p \in Procs : SaveImage(p)
    \/ \E p \in Procs : ListClassImages(p)

SpecGenerate == InitGenerate /\ [][NextGenerate]_vars

\* --------------------------------------------- prompt from the file name
\* The instance prompt the two __getitem__ derive from the stem of the
\* file name. A string is the sequence of its characters.

Digits == {"0", "1", "2", "3", "4", "5", "6", "7", "8", "9"}

\* ''.join([i for i in filename if not i.isdigit()])
NotDigit(c) == c \notin Digits
StripDigits(s) == SelectSeq(s, NotDigit)

\* pt.replace(old, new) where old is one character and new another
ReplaceChar(s, old, new) == [k \in 1 .. Len(s) |-> IF s[k] = old THEN new ELSE s[k]]

\* pt.replace("_", " ") left out: the mutation of the underscore pass
UnderscoresKept(s) == s

\* lines 365 and 472: pt.replace("_", " ")
UnderscoresToSpaces(s) == ReplaceChar(s, "_", " ")

\* pt.replace(old, "") where old is one character
RemoveChar(s, old) == LET Other(c) == c # old IN SelectSeq(s, Other)

\* pt.replace(",,", ","): the pairs are taken from the left, without overlap
RECURSIVE ReplaceCommaPairs(_)
ReplaceCommaPairs(s) ==
    IF Len(s) < 2 THEN s
    ELSE IF s[1] = "," /\ s[2] = ","
         THEN <<",">> \o ReplaceCommaPairs(SubSeq(s, 3, Len(s)))
         ELSE <<s[1]>> \o ReplaceCommaPairs(Tail(s))

\* lines 364-368 and 471-475: the passes the two classes have in common
CommonPasses(s) ==
    RemoveChar(RemoveChar(RemoveChar(UnderscoresToSpaces(StripDigits(s)), "("), ")"), "-")

\* lines 362-370: SubfolderModeDataset.__getitem__, with three comma passes
SubfolderPrompt(s) == ReplaceCommaPairs(ReplaceCommaPairs(ReplaceCommaPairs(CommonPasses(s))))

\* lines 469-476: DreamBoothDataset.__getitem__ with image_captions_filename
FlatPrompt(s) == CommonPasses(s)

\* the characters the enumerated stems are made of
Alphabet == {"a", "1", "_", "(", ")", "-", ",", " "}

\* all the stems of up to MaxStem characters
ShortStems == UNION {[1 .. n -> Alphabet] : n \in 0 .. MaxStem}

\* the stem of "sks_person (2).jpg"
SksPerson == <<"s", "k", "s", "_", "p", "e", "r", "s", "o", "n", " ", "(", "2", ")">>

\* stems of the specification, and runs of commas of every length up to 9
LongStems ==
    {SksPerson, <<"a", ",", ",", "b", ",", ",", "c">>,
     <<"a", ",", "1", ",", "b">>, <<",", "(", ",", ")", ",", "-", ",">>}
    \cup {[k \in 1 .. n |-> ","] : n \in 4 .. 9}

\* lines 362-370 and 469-476: the prompt of an instance image
DerivePrompt ==
    /\ variant # "none"
    /\ instance_prompt = NoPrompt
    /\ instance_prompt' = IF variant = "subfolder" THEN SubfolderPrompt(filename)
                          ELSE FlatPrompt(filename)
    /\ UNCHANGED <<variant, filename>>
    /\ UNCHANGED <<runVars, providerVars, batchVars, datasetVars, generateVars>>

\* an instance image of any name, in either dataset, and no training run
InitPrompt ==
    /\ variant \in {"subfolder", "flat"}
    /\ filename \in ShortStems \cup LongStems
    /\ instance_prompt = NoPrompt
    /\ args \in {a \in IdleArgs : a.train_text_encoder /\ a.not_cache_latents}
    /\ RunIdle
    /\ ProviderIdle
    /\ BatchIdle
    /\ DatasetIdle
    /\ GenerateIdle

NextPrompt == DerivePrompt

SpecPrompt == InitPrompt /\ [][NextPrompt]_vars

\* ==================================================================== claims

\* the session_step the invocation loads: that of a well-formed session file,
\* 0 when there is none
LoadedStep == IF session_at_start.kind = "valid" THEN session_at_start.step ELSE 0

\* C1: an invocation that loads session_step = S and whose loop executes n
\* optimizer updates writes session_step = S + n to the session file and names
\* its final checkpoint with S + n; so a run of S2 steps after a run that ended
\* with session_step = S1 names its final checkpoint with S1 + S2.
C1_SessionAccumulates ==
    /\ \A e \in Of("write_session") :
          /\ e.label = LoadedStep + unet[e.proc]
          /\ session_file = File("valid", LoadedStep + unet[e.proc])
    /\ \A e \in Of("convert_final") : e.label = LoadedStep + unet[e.proc]

\* a second invocation of S2 steps, after one that ended with S1 # S2, has
\* named its final checkpoint
C1_Witness ==
    /\ run = 2
    /\ session_at_start.kind = "valid"
    /\ session_at_start.step > 0
    /\ session_at_start.step # args.max_train_steps
    /\ \E e \in Of("convert_final") :
          e.label = session_at_start.step + args.max_train_steps

\* C2: whatever session file is found that no invocation wrote (missing, empty,
\* oversized, not JSON, JSON without an integer session_step), no process dies
\* of it and every process trains with session_step = 0.
C2_CorruptSessionNeverAborts ==
    \A p \in Procs :
        session_at_start.kind # "valid" =>
            /\ pc[p] \notin {"err_json", "err_session"}
            /\ (pc[p] \in LoopPcs \cup {"barrier"} \cup AfterLoopPcs
                    => session[p].kind = "valid")
            /\ (pc[p] \in LoopPcs \cup {"barrier"} => session[p].step = 0)

\* a process is out of the training loop: past it, or dead of an exception
\* raised inside it (or, for err_final_export, right after it)
LeftLoop(p) ==
    pc[p] \in AfterLoopPcs \cup {"err_export", "err_mkdir", "err_session",
                                 "err_final_export"}

\* a process that is past the loop has made max_train_steps optimizer updates:
\* the epochs of line 821 are enough for the break of line 943
PastLoopAtMax ==
    \A p \in Procs :
        pc[p] \in AfterLoopPcs =>
            global_step[p] = args.max_train_steps /\ unet[p] = args.max_train_steps

\* C3: a process leaves the training loop only with global_step equal to
\* max_train_steps.
C3_LeavesLoopOnlyAtMax ==
    \A p \in Procs : LeftLoop(p) => global_step[p] = args.max_train_steps

\* the images returned so far, and the cursor, of a constructed provider
C4_Cursor ==
    provider = "ready" =>
        /\ Len(class_images) = Cardinality(Files(entries))
        /\ Len(class_images) >= 1
        /\ cursor \in 0 .. (Len(class_images) - 1)
        /\ \A n, m \in 1 .. Len(taken) :
              (n < m /\ m <= Len(class_images)) => taken[n] # taken[m]
        /\ \A n \in 1 .. Len(taken) : taken[n] \in Files(entries)
        /\ \A n \in 1 .. Len(taken) :
              n + Len(class_images) <= Len(taken)
                  => taken[n + Len(class_images)] = taken[n]

\* one take_one() call
C4_Call ==
    (provider = "ready" /\ taken' # taken) =>
        /\ cursor' = (cursor + 1) % Len(class_images)
        /\ class_images' = class_images
        /\ taken' = Append(taken, class_images[cursor + 1])

\* C4: over a class directory of k >= 1 files the first k take_one() calls
\* return each file once, call n + k returns what call n returned, the cursor
\* stays in 0 .. k-1, and a call moves it to (cursor + 1) mod k and leaves the
\* list of images as it is.
C4_RoundRobin == [] C4_Cursor /\ [][C4_Call]_vars

\* a provider over three files has been asked four times
C4_Witness ==
    /\ provider = "ready"
    /\ Len(class_images) = 3
    /\ Len(taken) = 4
    /\ taken[4] = taken[1]

\* C5: once the main process is past the loop and past the final export, it
\* has saved the pipeline to output_dir exactly once, and when it has returned
\* it has run the final conversion under the name of the session step, for
\* every setting of train_text_encoder and not_cache_latents.
C5_FinalExportOnce ==
    (epoch[0] >= num_train_epochs /\ pc[0] # "final_export") =>
        /\ Cardinality({e \in Of("save_final") : e.proc = 0}) = 1
        /\ (pc[0] = "done" =>
               \E e \in Of("convert_final") : e.proc = 0 /\ e.label = FinalLabel(0))

\* C6: after the snapshot of the freeze transition the text encoder of the
\* process keeps the weights of the snapshot.
C6_FrozenAfterFreeze ==
    \A e \in Of("snapshot") : text_encoder[e.proc] = e.te

\* C7: the snapshot is taken at most once, by the main process, at
\* global_step = stop_text_encoder_training >= StopStepMin with text-encoder
\* training on; and once the main process is past the loop of a run with
\* StopStepMin <= stop_text_encoder_training < max_train_steps it was taken.
C7_SnapshotOnce ==
    /\ Cardinality(Of("snapshot")) <= 1
    /\ \A e \in Of("snapshot") :
          /\ e.proc = 0
          /\ train_text_encoder
          /\ e.label = args.stop_text_encoder_training
          /\ e.label >= StopStepMin
    /\ (/\ pc[0] \in AfterLoopPcs
        /\ train_text_encoder
        /\ args.stop_text_encoder_training >= StopStepMin
        /\ args.stop_text_encoder_training < args.max_train_steps)
          => Cardinality(Of("snapshot")) = 1

\* the periodic exports of the step: the converter runs it adds
NewExports == {e \in events' \ events : e.op = "convert_periodic"}

\* no two periodic exports of a run carry the same step label
C8_NoRepeat ==
    \A e, f \in Of("convert_periodic") : e.label = f.label => e = f

\* the state a periodic export is made in, and the target step after it
C8_Export ==
    \A e \in NewExports :
        /\ args.save_n_steps >= SaveNStepsMin
        /\ global_step[e.proc] + 1 = i[e.proc]
        /\ global_step[e.proc] + 1 < args.max_train_steps
        /\ e.label = session[e.proc].step + i[e.proc]
        /\ i'[e.proc] = i[e.proc] + args.save_n_steps

\* C8: a periodic export happens only with save_n_steps >= SaveNStepsMin,
\* global_step + 1 equal to the target step and below max_train_steps; it moves
\* the target step on by save_n_steps; no step label is exported twice in a run.
C8_PeriodicExport == [] C8_NoRepeat /\ [][C8_Export]_vars

\* a run has exported two checkpoints, save_n_steps apart
C8_Witness ==
    \E e, f \in Of("convert_periodic") : f.label = e.label + args.save_n_steps

\* C9: working directories are created, model files written and the converter
\* run by the main process only.
C9_ExportsOnlyByCoordinator ==
    \A e \in events :
        e.op \in {"mkdir_save_dir", "save_periodic", "convert_periodic",
                  "save_final", "convert_final"} => e.proc = 0

\* C10: the training directory and the session file are read, created and
\* written by the main process only, the file once, and no process finds the
\* directory created under it.
C10_SessionFileOnlyByCoordinator ==
    /\ \A e \in events :
          e.op \in {"makedirs_training", "read_session", "write_session"}
              => e.proc = 0
    /\ Cardinality(Of("write_session")) <= 1
    /\ \A p \in Procs : pc[p] # "err_makedirs"

\* between micro-batches every process has made global_step optimizer updates
C12_Updates == \A p \in Procs : unet[p] = global_step[p]

\* global_step and the parameters change only on a synchronizing micro-batch,
\* and then by one update
C12_Step ==
    \A p \in Procs :
        (global_step'[p] # global_step[p] \/ unet'[p] # unet[p]
            \/ text_encoder'[p] # text_encoder[p]) =>
            /\ pc[p] = "batch"
            /\ sync_gradients(step[p])
            /\ global_step'[p] = global_step[p] + 1
            /\ unet'[p] = unet[p] + 1
            /\ text_encoder'[p] \in {text_encoder[p], text_encoder[p] + 1}

\* C12: global_step is incremented only on a micro-batch that is a
\* synchronization boundary, by one, and between micro-batches the number of
\* parameter updates made so far equals global_step on every process: one update
\* per boundary, none on another micro-batch.
C12_StepPerBoundary == [] C12_Updates /\ [][C12_Step]_vars

\* with gradient_accumulation_steps = 2 a process has passed an accumulating
\* micro-batch of its second epoch, after the one update of the first
C12_Witness ==
    /\ args.gradient_accumulation_steps = 2
    /\ dataloader_len = 2
    /\ \E p \in Procs :
          /\ epoch[p] = 1 /\ step[p] = 1 /\ pc[p] = "batch"
          /\ global_step[p] = 1 /\ unet[p] = 1

\* global_step is at most max_train_steps, and a process that has reached it
\* is out of the loop body
C13_Bound ==
    \A p \in Procs :
        /\ global_step[p] <= args.max_train_steps
        /\ global_step[p] = args.max_train_steps => pc[p] \notin LoopPcs

\* a process that has reached max_train_steps starts no micro-batch again
C13_Stop ==
    \A p \in Procs :
        global_step[p] = args.max_train_steps =>
            /\ pc'[p] \notin LoopPcs
            /\ global_step'[p] = global_step[p]
            /\ unet'[p] = unet[p]
            /\ text_encoder'[p] = text_encoder[p]

\* C13: global_step never exceeds max_train_steps, and once it equals
\* max_train_steps no further micro-batch is processed, in the rest of the
\* epoch or in a later epoch.
C13_StopsAtMax == [] C13_Bound /\ [][C13_Stop]_vars

\* a process has left an epoch by the break of line 944 before its last
\* micro-batch
C13_Witness ==
    \E p \in Procs :
        /\ pc[p] = "barrier"
        /\ global_step[p] = args.max_train_steps
        /\ step[p] + 1 < dataloader_len

\* the rows of a batch of B examples: B or 2B of each kind
C11_Collated ==
    bpc \in {"collated", "cached", "forward", "loss"} =>
        LET B == Len(examples)
            n == IF with_prior_preservation THEN 2 * B ELSE B
        IN  /\ Len(batch.pixel_values) = n
            /\ Len(batch.input_ids) = n
            /\ \A k \in 1 .. B :
                  /\ batch.pixel_values[k] = examples[k].instance_images
                  /\ batch.input_ids[k] = examples[k].instance_prompt_ids
            /\ with_prior_preservation =>
                  \A k \in 1 .. B :
                      /\ batch.pixel_values[B + k] = examples[k].class_images
                      /\ batch.input_ids[B + k] = examples[k].class_prompt_ids

\* the row of a prediction comes from the image x and the prompt of kind
FromExample(row, kind, x) ==
    /\ row.latent.kind = kind /\ row.latent.image = x
    /\ row.hidden.kind = kind /\ row.hidden.image = x

\* the two halves of the loss of a batch with prior preservation
C11_Halves ==
    (bpc = "loss" /\ with_prior_preservation) =>
        /\ Len(loss_parts.instance) = Len(examples)
        /\ Len(loss_parts.prior) = Len(examples)
        /\ \A k \in 1 .. Len(examples) :
              /\ FromExample(loss_parts.instance[k], "instance",
                             examples[k].instance_images.image)
              /\ FromExample(loss_parts.prior[k], "class",
                             examples[k].class_images.image)

\* C11: with prior preservation a batch collated from B examples has 2B pixel
\* entries and 2B token rows, the B instance examples first and the class
\* examples of the same examples after them in the same order; with or without
\* the latent cache the first half, of the instance loss, holds instance rows
\* only and the second half, of the prior loss, class rows only, and the halves
\* have the same size.
C11_ConcatenatedHalves == C11_Collated /\ C11_Halves

\* the loss of a cached batch of two different examples has been split
C11_Witness ==
    /\ bpc = "loss"
    /\ with_prior_preservation
    /\ ~args.not_cache_latents
    /\ Len(examples) >= 2
    /\ examples[1] # examples[2]
    /\ Len(loss_parts.prior) = Len(examples)

\* C14: the construction of the subfolder dataset fails when the instance root
\* has more than MaxClassSubdirs class subfolders or a class subfolder has more
\* than MaxGroupDirs group subfolders, and succeeds with exactly MaxClassSubdirs
\* class subfolders of exactly MaxGroupDirs group subfolders each, every class
\* having a class image.
C14_SubfolderCaps ==
    (train_dataset # << >> /\ subfolder_mode) =>
        LET cls == instance_dir.classes IN
        /\ (\/ Len(cls) > MaxClassSubdirs
            \/ \E k \in 1 .. Len(cls) : Len(cls[k].groups) > MaxGroupDirs)
              => train_dataset.status = "error"
        /\ (/\ instance_dir.exists
            /\ Len(cls) = MaxClassSubdirs
            /\ \A k \in 1 .. Len(cls) :
                  Len(cls[k].groups) = MaxGroupDirs /\ class_dir[cls[k].name] >= 1)
              => train_dataset.status = "ready"

\* a dataset has been built over MaxClassSubdirs class subfolders of
\* MaxGroupDirs group subfolders
C14_Witness ==
    /\ train_dataset # << >>
    /\ subfolder_mode
    /\ train_dataset.status = "ready"
    /\ Len(instance_dir.classes) = MaxClassSubdirs
    /\ \A k \in 1 .. Len(instance_dir.classes) :
          Len(instance_dir.classes[k].groups) = MaxGroupDirs

\* the instance images under the class subfolders cls
AllInstanceImages(cls) ==
    UNION {UNION {{InstancePath(cls[k].name, g, j) : j \in 1 .. cls[k].groups[g]} :
                     g \in 1 .. Len(cls[k].groups)} :
              k \in 1 .. Len(cls)}

\* how many of the first m fetches were for an instance of class c
RequestsOf(c, m) == Cardinality({n \in 1 .. m : fetched[n].instance.class = c})

\* how many fetches received the class image x
UsesOf(x) == Cardinality({n \in 1 .. Len(fetched) : fetched[n].class_image = x})

\* C15: the length of the subfolder dataset is the number of instance images;
\* the j-th request (from 0) for an instance of class c receives image
\* j mod k_c of the provider of c, never an image of another class, and the
\* usage counts of two class images of a class differ by at most one.
C15_ClassRoundRobin ==
    (train_dataset # << >> /\ subfolder_mode /\ train_dataset.status = "ready") =>
        /\ train_dataset.length = Cardinality(AllInstanceImages(instance_dir.classes))
        /\ {train_dataset.instance_images_path[n] : n \in 1 .. train_dataset.length}
              = AllInstanceImages(instance_dir.classes)
        /\ \A m \in 1 .. Len(fetched) :
              /\ fetched[m].instance
                    = train_dataset.instance_images_path[fetched[m].index + 1]
              /\ fetched[m].class_image
                    = ClassPath(fetched[m].instance.class,
                                (RequestsOf(fetched[m].instance.class, m - 1)
                                    % class_dir[fetched[m].instance.class]) + 1)
        /\ \A c \in ClassNames : \A x, y \in 1 .. class_dir[c] :
              UsesOf(ClassPath(c, x)) - UsesOf(ClassPath(c, y)) \in {-1, 0, 1}

\* three requests for instances of one class of two class images, in a
\* dataset that holds instances of another class too
C15_Witness ==
    /\ train_dataset # << >>
    /\ subfolder_mode
    /\ Len(fetched) = 3
    /\ \E n \in 1 .. train_dataset.length :
          train_dataset.instance_images_path[n].class # fetched[1].instance.class
    /\ fetched[2].instance.class = fetched[1].instance.class
    /\ fetched[3].instance.class = fetched[1].instance.class
    /\ fetched[2].class_image # fetched[1].class_image
    /\ fetched[3].class_image = fetched[1].class_image

\* C16: the flat dataset has length max(instance count, class count) with prior
\* preservation and instance count without; example i uses instance image
\* i mod instance count and class image i mod class count, so a pass over
\* 0 .. length-1 uses every instance image and every class image.
C16_FlatWraparound ==
    (train_dataset # << >> /\ ~subfolder_mode /\ train_dataset.status # "error") =>
        LET ni == instance_dir.entries
            nc == class_dir[0]
            ok == {m \in 1 .. Len(fetched) : fetched[m].error = "none"}
        IN  /\ train_dataset.length =
                  IF with_prior_preservation /\ nc >= ni THEN nc ELSE ni
            /\ \A m \in 1 .. Len(fetched) :
                  fetched[m].error = "none"
                      <=> (ni >= 1 /\ (with_prior_preservation => nc >= 1))
            /\ \A m \in ok :
                  /\ fetched[m].instance = InstancePath(0, 0, (fetched[m].index % ni) + 1)
                  /\ with_prior_preservation =>
                        fetched[m].class_image = ClassPath(0, (fetched[m].index % nc) + 1)
            /\ (ok # {} /\ {fetched[m].index : m \in ok} = 0 .. (train_dataset.length - 1))
                  => /\ {fetched[m].instance : m \in ok}
                           = {InstancePath(0, 0, j) : j \in 1 .. ni}
                     /\ with_prior_preservation =>
                           {fetched[m].class_image : m \in ok}
                               = {ClassPath(0, j) : j \in 1 .. nc}

\* a pass over a flat dataset of two instance images and three class images
C16_Witness ==
    /\ train_dataset # << >>
    /\ ~subfolder_mode
    /\ with_prior_preservation
    /\ instance_dir.entries = 2
    /\ class_dir[0] = 3
    /\ Len(fetched) = 3
    /\ {fetched[m].index : m \in 1 .. 3} = 0 .. 2

\* a class directory the dataset draws class images from holds no file
EmptyClassSet ==
    IF subfolder_mode
    THEN \E k \in 1 .. Len(instance_dir.classes) :
            class_dir[instance_dir.classes[k].name] = 0
    ELSE with_prior_preservation /\ class_dir[0] = 0

\* C17: a class image set that is empty after the generation step makes the
\* construction of the dataset fail, in the flat and in the subfolder mode; no
\* fetch of an example fails on it.
C17_EmptyClassFatalAtConstruction ==
    (train_dataset # << >> /\ EmptyClassSet) =>
        /\ train_dataset.status = "error"
        /\ \A m \in 1 .. Len(fetched) : fetched[m].error = "none"

\* the run has failed on its data: the construction of the dataset has raised,
\* or the fetch of an example has
DataFailure ==
    /\ train_dataset # << >>
    /\ train_dataset.status \in {"error", "failed"}

\* C18: a missing instance directory, an empty class directory and subfolder
\* counts over the caps abort the run before the model weights have been
\* loaded and before any training step.
C18_FailsBeforeModelLoading ==
    DataFailure => (~models_loaded /\ trained = 0)


\* every process has left generate_class_samples
GenerationOver == \A p \in Procs : gpc[p] \in {"generated", "built"}

\* the images the generation has to write: the target less the entries found
NumNewImages ==
    IF num_class_images > Cardinality(found_files)
    THEN num_class_images - Cardinality(found_files) ELSE 0

\* C20: with e entries found and the target t, the generation writes exactly
\* max(0, t - e) images, named e + i for i = 0 .. t-e-1, no two under the same
\* name, and nothing when t <= e; it never overwrites a file that was found,
\* so afterwards the directory holds at least t files.
C20_GeneratesMissingImages ==
    /\ \A k \in 1 .. Len(written) :
          /\ written[k].name \notin found_files
          /\ written[k].name >= Cardinality(found_files)
          /\ written[k].name < num_class_images
          /\ \A j \in 1 .. Len(written) : written[j].name = written[k].name => j = k
    /\ GenerationOver =>
          /\ Len(written) = NumNewImages
          /\ Cardinality(class_images_dir) >= num_class_images


\* the processes that have built their dataset
Built == {p \in Procs : gpc[p] = "built"}

\* C19: the generation for a class directory has finished on every process
\* before any process lists the directory to build its dataset, which is to
\* say: all processes build their datasets from the same class images, and no
\* file is added to the directory after a dataset has listed it.
C19_GenerationBeforeListing ==
    /\ \A p \in Built : \A q \in Built : listing[p] = listing[q]
    /\ \A p \in Built : class_images_dir \subseteq listing[p]


\* a prompt has been derived from the file name
Derived == instance_prompt # NoPrompt

\* the characters the derivation removes
Removed == Digits \cup {"(", ")", "-"}

\* the stem with every digit, parenthesis and hyphen removed and every
\* underscore replaced by a space, character by character
RECURSIVE Cleaned(_)
Cleaned(s) ==
    IF s = << >> THEN << >>
    ELSE IF Head(s) \in Removed THEN Cleaned(Tail(s))
         ELSE <<IF Head(s) = "_" THEN " " ELSE Head(s)>> \o Cleaned(Tail(s))

\* the string has two commas next to each other
AdjacentCommas(s) == \E k \in 1 .. (Len(s) - 1) : s[k] = "," /\ s[k + 1] = ","

\* C21 as stated: the prompt is the stem with every digit removed, every
\* underscore replaced by a space and every '(', ')' and '-' removed; for
\* "sks_person (2).jpg" it is exactly "sks person".
C21_AsStated ==
    Derived =>
        /\ instance_prompt = Cleaned(filename)
        /\ filename = SksPerson =>
               instance_prompt = <<"s", "k", "s", " ", "p", "e", "r", "s", "o", "n">>

\* C21: the prompt is a function of the stem alone; whenever the cleaned stem
\* has no two adjacent commas it is the stem with every digit removed, every
\* underscore replaced by a space and every '(', ')' and '-' removed, and in
\* the flat variant it always is; the subfolder variant differs from it by
\* commas only; for "sks_person (2).jpg" the prompt is "sks person " with the
\* space that preceded the parenthesis.
C21_PromptFromStem ==
    Derived =>
        /\ (variant = "flat" \/ ~AdjacentCommas(Cleaned(filename))) =>
               instance_prompt = Cleaned(filename)
        /\ RemoveChar(instance_prompt, ",") = RemoveChar(Cleaned(filename), ",")
        /\ \A k \in 1 .. Len(instance_prompt) :
               instance_prompt[k] \notin Removed \cup {"_"}
        /\ filename = SksPerson =>
               instance_prompt = <<"s", "k", "s", " ", "p", "e", "r", "s", "o", "n", " ">>

\* a prompt derived from a stem holding an underscore and removed characters
C21_Witness ==
    /\ Derived
    /\ filename = SksPerson
    /\ instance_prompt = <<"s", "k", "s", " ", "p", "e", "r", "s", "o", "n", " ">>

\* C22: for every stem the derived prompt has no two adjacent commas, in both
\* dataset variants; the stem "a,,b,,c" gives "a,b,c".
C22_NoAdjacentCommas ==
    Derived =>
        /\ ~AdjacentCommas(instance_prompt)
        /\ filename = <<"a", ",", ",", "b", ",", ",", "c">> =>
               instance_prompt = <<"a", ",", "b", ",", "c">>


\* the exports a step adds: the checkpoint of a periodic export, the model of
\* the final export
ExportsOfStep ==
    {e \in events' \ events : e.op \in {"convert_periodic", "save_final"}}

\* every export made once the snapshot has been taken holds the text encoder
\* of the snapshot and the denoising network of the exporting process
C23_Export ==
    Of("snapshot") # {} =>
        \A e \in ExportsOfStep :
            /\ \A f \in Of("snapshot") : e.te = f.te
            /\ e.te = args.stop_text_encoder_training
            /\ e.unet = unet[e.proc]

\* C23: every periodic or final export produced after the freeze transition
\* contains the text-encoder weights captured at the freeze step, not those
\* the text encoder has at export time, and the current weights of the
\* denoising network.
C23_ExportsHoldSnapshot == [][C23_Export]_vars

\* a periodic and a final export after the freeze, whose text encoder is not
\* the one the process holds
C23_Witness ==
    /\ Of("snapshot") # {}
    /\ \E e \in Of("convert_periodic") :
          \E f \in Of("snapshot") : e.te = f.te /\ e.unet > f.unet
    /\ \E e \in Of("save_final") :
          /\ e.te # text_encoder[e.proc]
          /\ e.unet = unet[e.proc]


\* every process has returned from main()
Completed == \A p \in Procs : pc[p] = "done"

\* a step that exports while the snapshot directory exists merges a snapshot
\* taken by the invocation that exports
C24_Merge ==
    (ExportsOfStep # {} /\ train_text_encoder /\ frz_dir.exists) => frz_dir.run = run

\* C24: the frozen snapshot merged into an export is always one created by the
\* freeze transition of the same invocation, and after an invocation completes
\* the directory text_encoder_frozen does not exist: a snapshot left behind by
\* an earlier invocation is never merged into an export of a later one.
C24_NoStaleSnapshot == [][C24_Merge]_vars /\ [](Completed => ~frz_dir.exists)


\* C25: with save_intermediary_dirs = 0 the working directory of each periodic
\* export is removed after that export, so that no periodic working directory
\* exists when the run ends, for any number of processes and any
\* gradient_accumulation_steps; otherwise every working directory is kept.
C25_WorkingDirsRemoved ==
    /\ (args.save_intermediary_dirs = 0 /\ Completed) => save_dirs = {}
    /\ args.save_intermediary_dirs # 0 =>
           \A e \in Of("convert_periodic") : e.label \in save_dirs


\* the latent cache is enabled and a training step has used the batch
TrainedFromCache == ~args.not_cache_latents /\ bpc \in {"forward", "loss"}

\* the rows of a cache entry or of an embedding all have the given form
AllOfForm(rows, form) == \A k \in 1 .. Len(rows) : rows[k].form = form

\* the cache, once built, stays as it is
C26_CacheKept == latents_cache # << >> => latents_cache' = latents_cache

\* C26: with the latent cache enabled, the cache is built before the first
\* training step and never modified afterwards; an entry holds token ids
\* exactly when the text encoder is trained and hidden states otherwise, and a
\* training step applies the text encoder to the entry exactly when it holds
\* token ids, so that the denoising network always receives hidden states.
C26_LatentCache ==
    /\ [](TrainedFromCache =>
            /\ latents_cache # << >>
            /\ AllOfForm(latents_cache[1], "latent")
            /\ AllOfForm(latents_cache[2], IF train_text_encoder THEN "ids" ELSE "hidden")
            /\ Len(noise_pred) = Len(latents_cache[2])
            /\ \A k \in 1 .. Len(noise_pred) :
                  /\ noise_pred[k].hidden.form = "hidden"
                  /\ noise_pred[k].hidden.image = latents_cache[2][k].image
                  /\ noise_pred[k].hidden.kind = latents_cache[2][k].kind
                  /\ noise_pred[k].latent = latents_cache[1][k])
    /\ [](bpc \in {"forward", "loss"} =>
            \A k \in 1 .. Len(noise_pred) : noise_pred[k].hidden.form = "hidden")
    /\ [][C26_CacheKept]_vars

\* a second training step on a cache of token ids, and on one of hidden states
C26_Witness ==
    /\ TrainedFromCache
    /\ loss_parts # << >>
    /\ bpc = "forward"
    /\ latents_cache[2][1].form \in {"ids", "hidden"}


\* C27: no module released after latent caching is used afterwards: when the
\* text encoder is deleted after caching, no training step, snapshot, periodic
\* export or final export of the run refers to it.
C27_ReleasedModulesUnused ==
    text_encoder_deleted =>
        \A p \in Procs : pc[p] \notin {"err_export", "err_final_export"}


\* the targets of the periodic export below max_train_steps
PeriodicTargets ==
    {t \in 1 .. (args.max_train_steps - 1) :
        /\ t >= args.save_starting_step
        /\ (t - args.save_starting_step) % args.save_n_steps = 0}

\* C28: when save_n_steps >= 200, for every target t = save_starting_step +
\* k * save_n_steps with 1 <= t < max_train_steps exactly one periodic
\* checkpoint labelled (loaded session_step + t) is exported during the run,
\* for every gradient_accumulation_steps and the default save_starting_step.
C28_EveryTargetExported ==
    (args.save_n_steps >= SaveNStepsMin /\ Completed) =>
        \A t \in PeriodicTargets :
            Cardinality({e \in Of("convert_periodic") : e.label = LoadedStep + t}) = 1


\* C29: a checkpoint's step label matches its contents: a periodic checkpoint
\* labelled (loaded session_step + m) holds the weights after exactly m
\* optimization steps of the invocation, and the final checkpoint, labelled
\* (loaded session_step + max_train_steps), those after max_train_steps steps.
C29_LabelMatchesContents ==
    /\ \A e \in Of("convert_periodic") : e.unet = e.label - LoadedStep
    /\ \A e \in Of("convert_final") :
          /\ e.label = LoadedStep + args.max_train_steps
          /\ e.unet = args.max_train_steps


\* the checkpoints the invocation has exported
Checkpoints == Of("convert_periodic") \cup Of("convert_final")

\* the checkpoint e was exported before the checkpoint f
ExportedBefore(e, f) ==
    \/ e.op = "convert_periodic" /\ f.op = "convert_final"
    \/ /\ e.op = "convert_periodic" /\ f.op = "convert_periodic"
       /\ \/ e.ep < f.ep
          \/ e.ep = f.ep /\ e.st < f.st

\* C30: across complete invocations on the same output directory the step
\* labels of all exported checkpoints, periodic and final, are pairwise
\* distinct and strictly increasing in export order: within a complete
\* invocation, above the session step it loaded, which is the highest label
\* the invocations before it have used, and up to the one it leaves.
C30_LabelsIncrease ==
    Completed =>
        /\ session_file.kind = "valid"
        /\ \A e \in Checkpoints :
              /\ e.label > LoadedStep
              /\ e.label <= session_file.step
              /\ \A f \in Checkpoints \ {e} :
                    /\ e.label # f.label
                    /\ ExportedBefore(e, f) => e.label < f.label


\* C31: the session file is written only after the training loop and the
\* final export have finished: an invocation that aborts at any earlier point
\* (configuration or session error, exception inside the loop, failure of a
\* periodic or of the final export) leaves the stored session as it was loaded.
C31_SessionWrittenLast ==
    session_file # session_at_start =>
        /\ Of("save_final") # {}
        /\ \A p \in Procs : pc[p] \in AfterLoopPcs \cup {"err_session"}

====
